---- MODULE Spec2Model ----
(***************************************************************************)
(* Model of xml_to_json_yaml.py: the streaming XML -> per-year JSON/YAML   *)
(* transcoder (main), its record projector (person_elem_to_dict), its      *)
(* year resolver (extract_year_from_birth) and its two writers             *)
(* (JsonArrayWriter, yaml_write), together with the readers the other      *)
(* scripts apply to the files it produces (json.load, yaml.safe_load_all). *)
(*                                                                         *)
(* Python strings that the code inspects character by character (texts,    *)
(* dates, years) are sequences of one-character strings; names (tags,      *)
(* dict keys) are TLA+ strings.  A Python value is a tagged record, see    *)
(* None, Str and Dict.  A dict is the sequence of its items in insertion   *)
(* order.                                                                  *)
(***************************************************************************)
EXTENDS Integers, Sequences, FiniteSets, TLC

VARIABLES
    pc,             \* where main is: "streaming", "done", "aborted"; or a harness position
    mapping,        \* main: mapping (the loaded table, a dict name -> name)
    json_writers,   \* main: json_writers, year_str -> JsonArrayWriter
    yaml_files,     \* main: yaml_files, year_str -> open file
    disk,           \* the files of outdir: path -> content written so far
    routed,         \* history: year_str -> the records handed to the writers of that year
    tree,           \* number of Element objects the iterparse tree still references
    pending,        \* how many of them are descendants of the record element being read
    nrec,           \* number of record elements read so far
    exc,            \* the exception that left main, or "none"
    elem,           \* main: elem, the element of the current end event
    record,         \* main: record
    birth_val,      \* main: birth_val
    year_str        \* main: year_str

vars == <<pc, mapping, json_writers, yaml_files, disk, routed, tree, pending,
          nrec, exc, elem, record, birth_val, year_str>>

-----------------------------------------------------------------------------
(* Python values *)

None == [t |-> "None", s |-> <<>>, d |-> <<>>]

Str(s) == [t |-> "str", s |-> s, d |-> <<>>]

Dict(d) == [t |-> "dict", s |-> <<>>, d |-> d]

\* bool(v): None, '' and {} are false
Truthy(v) == CASE v.t = "None" -> FALSE
               [] v.t = "str" -> v.s # <<>>
               [] v.t = "dict" -> v.d # <<>>

Digits == {"0", "1", "2", "3", "4", "5", "6", "7", "8", "9"}

Unknown == <<"u", "n", "k", "n", "o", "w", "n">>

\* the characters of a name
NameChars(n) ==
    CASE n = "birth" -> <<"b", "i", "r", "t", "h">>
      [] n = "fecha" -> <<"f", "e", "c", "h", "a">>
      [] n = "dob" -> <<"d", "o", "b">>
      [] n = "year" -> <<"y", "e", "a", "r">>
      [] n = "name" -> <<"n", "a", "m", "e">>
      [] OTHER -> <<"_">>

-----------------------------------------------------------------------------
(* dict operations; a dict is a sequence of items [k |-> key, v |-> value] *)

DictKeys(d) == {d[i].k : i \in 1..Len(d)}

\* key in d
DictHas(d, key) == key \in DictKeys(d)

\* d.get(key, default)
DictGet(d, key, default) ==
    IF DictHas(d, key)
    THEN d[CHOOSE i \in 1..Len(d) : d[i].k = key].v
    ELSE default

\* d[key] = value: an existing key keeps its place, a new one is appended
DictSet(d, key, value) ==
    IF DictHas(d, key)
    THEN [i \in 1..Len(d) |-> IF d[i].k = key THEN [k |-> key, v |-> value] ELSE d[i]]
    ELSE Append(d, [k |-> key, v |-> value])

-----------------------------------------------------------------------------
(* str.strip, str.split, str.isdigit, str() *)

IsSpace(c) == c = " "

RECURSIVE LStrip(_)
LStrip(s) == IF s # <<>> /\ IsSpace(Head(s)) THEN LStrip(Tail(s)) ELSE s

RECURSIVE RStrip(_)
RStrip(s) ==
    IF s # <<>> /\ IsSpace(s[Len(s)]) THEN RStrip(SubSeq(s, 1, Len(s) - 1)) ELSE s

Strip(s) == RStrip(LStrip(s))

RECURSIVE Split(_, _)
Split(s, sep) ==
    IF \E i \in 1..Len(s) : s[i] = sep
    THEN LET i == CHOOSE i \in 1..Len(s) : s[i] = sep /\ \A j \in 1..(i - 1) : s[j] # sep
         IN  <<SubSeq(s, 1, i - 1)>> \o Split(SubSeq(s, i + 1, Len(s)), sep)
    ELSE <<s>>

IsDigit(s) == s # <<>> /\ \A i \in 1..Len(s) : s[i] \in Digits

RECURSIVE Join(_, _)
Join(parts, sep) ==
    IF parts = <<>> THEN <<>>
    ELSE IF Len(parts) = 1 THEN parts[1]
    ELSE parts[1] \o sep \o Join(Tail(parts), sep)

\* repr of a str (the alphabet holds no quote and no escape)
ReprStr(s) == <<"'">> \o s \o <<"'">>

\* repr of a dict whose values are strs
ReprDict(d) ==
    <<"{">>
    \o Join([i \in 1..Len(d) |->
                ReprStr(NameChars(d[i].k)) \o <<":", " ">> \o ReprStr(d[i].v.s)],
            <<",", " ">>)
    \o <<"}">>

\* str(v)
PyStr(v) == CASE v.t = "str" -> v.s
              [] v.t = "dict" -> ReprDict(v.d)
              [] v.t = "None" -> <<"N", "o", "n", "e">>

-----------------------------------------------------------------------------
(* extract_year_from_birth *)

\* YEAR_RE matches at position i of s
YearAt(s, i) ==
    /\ i + 3 <= Len(s)
    /\ \/ s[i] = "1" /\ s[i + 1] = "8"
       \/ s[i] = "1" /\ s[i + 1] = "9"
       \/ s[i] = "2" /\ s[i + 1] = "0"
    /\ s[i + 2] \in Digits
    /\ s[i + 3] \in Digits

\* YEAR_RE.search(s), scanning from position i: group(1) of the first match, or None
RECURSIVE YEAR_RE_search(_, _)
YEAR_RE_search(s, i) ==
    IF i + 3 > Len(s) THEN None
    ELSE IF YearAt(s, i) THEN Str(SubSeq(s, i, i + 3))
    ELSE YEAR_RE_search(s, i + 1)

extract_year_first_split(birth_str) ==
    LET parts == Split(birth_str, "-")
        m == YEAR_RE_search(birth_str, 1)
    IN  IF birth_str = <<>> THEN None
        ELSE IF Len(parts) >= 1 /\ Len(parts[1]) = 4 /\ IsDigit(parts[1])
        THEN Str(parts[1])
        ELSE IF m # None THEN m
        ELSE IF Len(parts) >= 1 /\ Len(parts[Len(parts)]) = 4 /\ IsDigit(parts[Len(parts)])
        THEN Str(parts[Len(parts)])
        ELSE None

extract_year_from_birth(birth_str) ==
    LET m == YEAR_RE_search(birth_str, 1)
        parts == Split(birth_str, "-")
    IN  IF birth_str = <<>> THEN None
        ELSE IF m # None THEN m
        ELSE IF Len(parts) >= 1 /\ Len(parts[1]) = 4 /\ IsDigit(parts[1])
        THEN Str(parts[1])
        ELSE IF Len(parts) >= 1 /\ Len(parts[Len(parts)]) = 4 /\ IsDigit(parts[Len(parts)])
        THEN Str(parts[Len(parts)])
        ELSE None

\* str(birth_val or 'unknown'), the string handed to extract_year_from_birth
DateArg(bv) == PyStr(IF Truthy(bv) THEN bv ELSE Str(Unknown))

\* main: year = extract_year_from_birth(str(birth_val or 'unknown')) or 'unknown';
\*       year_str = str(year)
YearStr(bv) ==
    LET year == extract_year_from_birth(DateArg(bv))
    IN  PyStr(IF Truthy(year) THEN year ELSE Str(Unknown))

-----------------------------------------------------------------------------
(* The resolver on its own: birth_val is drawn from the date strings built *)
(* of at most MaxTokens tokens, and Resolve applies main's line 140.       *)

MaxTokens == 5

DateTokens == {<<"1", "9">>, <<"2", "0">>, <<"1", "8">>, <<"1", "2">>, <<"-">>, <<"x">>}

RECURSIVE Flatten(_)
Flatten(ts) == IF ts = <<>> THEN <<>> ELSE Head(ts) \o Flatten(Tail(ts))

DateStrings == {Flatten(ts) : ts \in UNION {[1..n -> DateTokens] : n \in 0..MaxTokens}}

NotYet == <<"?">>

InitResolver ==
    /\ pc = "resolve"
    /\ birth_val \in {None} \cup {Str(s) : s \in DateStrings}
    /\ year_str = NotYet
    /\ mapping = <<>>
    /\ json_writers = <<>>
    /\ yaml_files = <<>>
    /\ disk = <<>>
    /\ routed = <<>>
    /\ tree = 0
    /\ pending = 0
    /\ nrec = 0
    /\ exc = "none"
    /\ elem = None
    /\ record = <<>>

Resolve ==
    /\ pc = "resolve"
    /\ year_str' = YearStr(birth_val)
    /\ pc' = "resolved"
    /\ UNCHANGED <<mapping, json_writers, yaml_files, disk, routed, tree, pending,
                   nrec, exc, elem, record, birth_val>>

NextResolver == Resolve

SpecResolver == InitResolver /\ [][NextResolver]_vars

-----------------------------------------------------------------------------
(* C6: the partition key is the result of the four-step rule, first        *)
(* success winning: the leftmost 18xx/19xx/20xx run anywhere in the        *)
(* string; else the first '-'-separated segment if it is exactly 4 digits; *)
(* else the last one if it is exactly 4 digits; else "unknown".  An empty  *)
(* or missing string gives "unknown", and the key is always a 4-digit      *)
(* string or "unknown".                                                    *)

\* the 4-character windows of s that have the form 18xx, 19xx or 20xx
YearWindows(s) ==
    {i \in 1..(Len(s) - 3) :
        /\ <<s[i], s[i + 1]>> \in {<<"1", "8">>, <<"1", "9">>, <<"2", "0">>}
        /\ {s[i + 2], s[i + 3]} \subseteq Digits}

\* the segments of s between successive '-'
DashCuts(s) == {0, Len(s) + 1} \cup {i \in 1..Len(s) : s[i] = "-"}

FirstSegment(s) == SubSeq(s, 1, (CHOOSE c \in DashCuts(s) : c > 0 /\ \A e \in DashCuts(s) : e > 0 => c <= e) - 1)

LastSegment(s) == SubSeq(s, (CHOOSE c \in DashCuts(s) : c <= Len(s) /\ \A e \in DashCuts(s) : e <= Len(s) => e <= c) + 1, Len(s))

FourDigits(s) == Len(s) = 4 /\ \A i \in 1..4 : s[i] \in Digits

FourStepRule(s) ==
    IF YearWindows(s) # {}
    THEN LET i == CHOOSE i \in YearWindows(s) : \A j \in YearWindows(s) : i <= j
         IN  SubSeq(s, i, i + 3)
    ELSE IF FourDigits(FirstSegment(s)) THEN FirstSegment(s)
    ELSE IF FourDigits(LastSegment(s)) THEN LastSegment(s)
    ELSE Unknown

C6_FourStepRule ==
    pc = "resolved" =>
        /\ birth_val.t = "str" => year_str = FourStepRule(birth_val.s)
        /\ (birth_val = None \/ birth_val = Str(<<>>)) => year_str = Unknown
        /\ year_str = Unknown \/ FourDigits(year_str)

\* a date whose first segment is 4 digits but whose year is found further on
C6_Witness ==
    /\ pc = "resolved"
    /\ birth_val = Str(<<"1", "2", "1", "2", "-", "1", "9", "1", "2">>)
    /\ year_str = <<"1", "9", "1", "2">>

-----------------------------------------------------------------------------
(* XML elements: [tag, attrib, text, kids].  attrib is a dict name -> str, *)
(* text is None or a str, kids the child elements in document order.       *)

Element(tag, attrib, text, kids) ==
    [tag |-> tag, attrib |-> attrib, text |-> text, kids |-> kids]

Item(k, v) == [k |-> k, v |-> v]

\* map_tag: mapping.get(tag, tag)
map_tag(tag, mp) == DictGet(mp, tag, tag)

\* x.text.strip() if x.text else ''
StrippedText(x) == IF Truthy(x.text) THEN Str(Strip(x.text.s)) ELSE Str(<<>>)

\* for k, v in elem.attrib.items(): d[map_tag(k, mapping)] = v
RECURSIVE PutAttribs(_, _, _)
PutAttribs(d, items, mp) ==
    IF items = <<>> THEN d
    ELSE PutAttribs(DictSet(d, map_tag(Head(items).k, mp), Head(items).v), Tail(items), mp)

\* for g in child: sub[map_tag(g.tag, mapping)] = g.text.strip() if g.text else ''
RECURSIVE PutGrandchildren(_, _, _)
PutGrandchildren(sub, gs, mp) ==
    IF gs = <<>> THEN sub
    ELSE PutGrandchildren(DictSet(sub, map_tag(Head(gs).tag, mp), StrippedText(Head(gs))),
                          Tail(gs), mp)

\* the loop over the children of elem
RECURSIVE PutChildren(_, _, _)
PutChildren(d, cs, mp) ==
    IF cs = <<>> THEN d
    ELSE LET child == Head(cs)
             key == map_tag(child.tag, mp)
             val == IF Len(child.kids) = 0
                    THEN StrippedText(child)
                    ELSE Dict(PutGrandchildren(<<>>, child.kids, mp))
         IN  PutChildren(DictSet(d, key, val), Tail(cs), mp)

\* the same loop with the grandchildren's tags left unmapped
RECURSIVE PutChildrenRawSub(_, _, _)
PutChildrenRawSub(d, cs, mp) ==
    IF cs = <<>> THEN d
    ELSE LET child == Head(cs)
             key == map_tag(child.tag, mp)
             val == IF Len(child.kids) = 0
                    THEN StrippedText(child)
                    ELSE Dict(PutGrandchildren(<<>>, child.kids, <<>>))
         IN  PutChildrenRawSub(DictSet(d, key, val), Tail(cs), mp)

person_elem_to_dict_raw_sub(el, mp) ==
    PutChildrenRawSub(PutAttribs(<<>>, el.attrib, mp), el.kids, mp)

\* the projector with the mapping applied to no name at all
person_elem_to_dict_unmapped(el, mp) ==
    PutChildren(PutAttribs(<<>>, el.attrib, <<>>), el.kids, <<>>)

person_elem_to_dict(el, mp) ==
    PutChildren(PutAttribs(<<>>, el.attrib, mp), el.kids, mp)

-----------------------------------------------------------------------------
(* main, lines 130-141: the date field of a record *)

Candidates == <<"birth", "fecha", "fechaNacimiento", "birthdate", "birth_date">>

\* the lookup that stops at the first candidate holding a non-empty value
RECURSIVE FirstNonEmpty(_, _)
FirstNonEmpty(rec, cs) ==
    IF cs = <<>> THEN None
    ELSE IF DictHas(rec, Head(cs)) /\ Truthy(DictGet(rec, Head(cs), None))
    THEN DictGet(rec, Head(cs), None)
    ELSE FirstNonEmpty(rec, Tail(cs))

BirthValNonEmpty(rec, mp) == FirstNonEmpty(rec, Candidates \o <<DictGet(mp, "birth", "birth")>>)

\* the value of the first of the names cs that is a key of rec, or None
RECURSIVE FirstPresent(_, _)
FirstPresent(rec, cs) ==
    IF cs = <<>> THEN None
    ELSE IF DictHas(rec, Head(cs)) THEN DictGet(rec, Head(cs), None)
    ELSE FirstPresent(rec, Tail(cs))

\* for candidate in (...): if candidate in record: birth_val = record[candidate]; break
\* if birth_val is None: birth_val = record.get(mapping.get('birth', 'birth'))
BirthVal(rec, mp) ==
    LET found == FirstPresent(rec, Candidates)
    IN  IF found = None
        THEN DictGet(rec, DictGet(mp, "birth", "birth"), None)
        ELSE found

-----------------------------------------------------------------------------
(* The projector and the date lookup on their own: elem and mapping are    *)
(* drawn from bounded sets and Project applies main's lines 128-141.       *)

MaxChildren == 2

Texts == {None, Str(<<" ">>), Str(<<"1", "9", "9", "0">>), Str(<<" ", "1", "2", "3", "4", " ">>)}

Leaf(tag, text) == Element(tag, <<>>, text, <<>>)

LeafChildren == {Leaf(tag, text) : tag \in {"birth", "fecha", "dob"}, text \in Texts}

\* grandchildren: plain, with a child of its own, without text
G1 == Leaf("year", Str(<<" ", "1", "2", "3", "4", " ">>))

G2 == Element("birth", <<>>, Str(<<"1", "9", "9", "0">>), <<Leaf("name", Str(<<"x">>))>>)

G3 == Leaf("year", None)

GrandSeqs == {<<G1>>, <<G2>>, <<G1, G3>>, <<G2, G1>>}

NestedChildren ==
    {Element(tag, <<>>, Str(<<" ">>), gs) : tag \in {"birth", "name"}, gs \in GrandSeqs}

ChildOptions == LeafChildren \cup NestedChildren

AttribOptions == {<<>>, <<Item("birth", Str(<<"1", "9", "9", "0", " ">>))>>}

ProjElements ==
    {Element("person", a, None, cs) :
        a \in AttribOptions,
        cs \in UNION {[1..n -> ChildOptions] : n \in 0..MaxChildren}}

BirthToDob == <<Item("birth", "dob")>>

Mappings == {<<>>, BirthToDob, <<Item("fecha", "birth"), Item("year", "fecha")>>}

InitProjector ==
    /\ pc = "project"
    /\ elem \in ProjElements
    /\ mapping \in Mappings
    /\ record = <<>>
    /\ birth_val = None
    /\ year_str = NotYet
    /\ json_writers = <<>>
    /\ yaml_files = <<>>
    /\ disk = <<>>
    /\ routed = <<>>
    /\ tree = 0
    /\ pending = 0
    /\ nrec = 0
    /\ exc = "none"

Project ==
    /\ pc = "project"
    /\ record' = person_elem_to_dict(elem, mapping)
    /\ birth_val' = BirthVal(record', mapping)
    /\ year_str' = YearStr(birth_val')
    /\ pc' = "projected"
    /\ UNCHANGED <<mapping, json_writers, yaml_files, disk, routed, tree, pending,
                   nrec, exc, elem>>

NextProjector == Project

SpecProjector == InitProjector /\ [][NextProjector]_vars

-----------------------------------------------------------------------------
(* Properties of the projector and of the date lookup *)

Min(S) == CHOOSE x \in S : \A y \in S : x <= y

Max(S) == CHOOSE x \in S : \A y \in S : y <= x

\* the text of x between its first and its last non-blank character
Trimmed(x) ==
    IF x.text = None THEN <<>>
    ELSE LET s == x.text.s
             ns == {i \in 1..Len(s) : s[i] # " "}
         IN  IF ns = {} THEN <<>> ELSE SubSeq(s, Min(ns), Max(ns))

AttribsNamed(el, mp, key) == {i \in 1..Len(el.attrib) : map_tag(el.attrib[i].k, mp) = key}

KidsNamed(el, mp, key) == {i \in 1..Len(el.kids) : map_tag(el.kids[i].tag, mp) = key}

\* v is the nested sub-mapping of child c, a later grandchild replacing an
\* earlier one of the same mapped name
IsSubMappingOf(v, c, mp) ==
    /\ v.t = "dict"
    /\ DictKeys(v.d) = {map_tag(c.kids[j].tag, mp) : j \in 1..Len(c.kids)}
    /\ Len(v.d) = Cardinality(DictKeys(v.d))
    /\ \A key \in DictKeys(v.d) :
          DictGet(v.d, key, None) = Str(Trimmed(c.kids[Max(KidsNamed(c, mp, key))]))

\* C8 (amended): every attribute name, child tag and grandchild tag is passed
\* through the mapping (absent names unchanged) and the record holds one field per
\* distinct mapped name; where several attributes or children (or several
\* grandchildren of one child) have the same mapped name, the last one in the
\* order attributes, then children in document order, gives the value: an
\* attribute its value, a child without children its trimmed text ('' if none), a
\* child with children a nested sub-mapping of its grandchildren's trimmed texts.
C8_ProjectionLastWins ==
    pc = "projected" =>
        /\ DictKeys(record) =
              {map_tag(elem.attrib[i].k, mapping) : i \in 1..Len(elem.attrib)}
              \cup {map_tag(elem.kids[i].tag, mapping) : i \in 1..Len(elem.kids)}
        /\ Len(record) = Cardinality(DictKeys(record))
        /\ \A key \in DictKeys(record) :
              LET v == DictGet(record, key, None)
                  ks == KidsNamed(elem, mapping, key)
              IN  IF ks # {}
                  THEN LET c == elem.kids[Max(ks)]
                       IN  IF c.kids = <<>> THEN v = Str(Trimmed(c))
                           ELSE IsSubMappingOf(v, c, mapping)
                  ELSE v = elem.attrib[Max(AttribsNamed(elem, mapping, key))].v

\* C8 as stated: each attribute, each child and each grandchild has its own entry
C8_EveryPartProjected ==
    pc = "projected" =>
        /\ \A i \in 1..Len(elem.attrib) :
              DictGet(record, map_tag(elem.attrib[i].k, mapping), None) = elem.attrib[i].v
        /\ \A i \in 1..Len(elem.kids) :
              LET c == elem.kids[i]
                  v == DictGet(record, map_tag(c.tag, mapping), None)
              IN  IF c.kids = <<>> THEN v = Str(Trimmed(c))
                  ELSE /\ v.t = "dict"
                       /\ Len(v.d) = Len(c.kids)
                       /\ \A j \in 1..Len(c.kids) :
                             DictGet(v.d, map_tag(c.kids[j].tag, mapping), None)
                                = Str(Trimmed(c.kids[j]))

\* an attribute, a trimmed leaf and a nested child whose two grandchildren share
\* a mapped name
C8_Witness ==
    /\ pc = "projected"
    /\ elem.attrib # <<>>
    /\ DictGet(mapping, "year", "year") = "fecha"
    /\ Len(elem.kids) = 2
    /\ elem.kids[1] = Leaf("dob", Str(<<" ", "1", "2", "3", "4", " ">>))
    /\ elem.kids[2].tag = "name" /\ elem.kids[2].kids = <<G1, G3>>
    /\ DictGet(record, "dob", None) = Str(<<"1", "2", "3", "4">>)
    /\ DictGet(record, "name", None) = Dict(<<Item("fecha", Str(<<>>))>>)

OtherDateNames == {"dob", "fecha", "fechaNacimiento", "birthdate", "birth_date"}

BirthKids(el) == {i \in 1..Len(el.kids) : el.kids[i].tag = "birth"}

\* el has exactly one birth child, a leaf, and nothing else named like a date field
OnlyBirthChild(el) ==
    /\ Cardinality(BirthKids(el)) = 1
    /\ \A i \in BirthKids(el) : el.kids[i].kids = <<>>
    /\ \A i \in 1..Len(el.kids) : el.kids[i].tag \notin OtherDateNames
    /\ \A i \in 1..Len(el.attrib) : el.attrib[i].k \notin OtherDateNames \cup {"birth"}

\* the resolver's result on the string s
ResolverKey(s) ==
    IF s = <<>> \/ extract_year_from_birth(s) = None THEN Unknown
    ELSE extract_year_from_birth(s).s

\* C7 (amended): with the mapping {birth: dob}, the record of an element that has
\* exactly one birth child, without children of its own, and no other attribute or
\* child named birth, dob, fecha, fechaNacimiento, birthdate or birth_date carries
\* the field dob and no field birth, and its partition key is the resolver's
\* result on the whitespace-trimmed birth text.
C7_RenamedBirthStillFound ==
    (pc = "projected" /\ mapping = BirthToDob /\ OnlyBirthChild(elem)) =>
        /\ DictHas(record, "dob")
        /\ ~DictHas(record, "birth")
        /\ year_str = ResolverKey(Trimmed(elem.kids[Min(BirthKids(elem))]))

\* C7 as stated: every record of an element with a birth child carries dob, no
\* birth, and is routed by the resolver's result on the original birth text
C7_AlwaysOriginalBirthText ==
    (pc = "projected" /\ mapping = BirthToDob /\ BirthKids(elem) # {}) =>
        /\ DictHas(record, "dob")
        /\ ~DictHas(record, "birth")
        /\ LET b == elem.kids[Min(BirthKids(elem))]
           IN  year_str = ResolverKey(IF b.text = None THEN <<>> ELSE b.text.s)

C7_Witness ==
    /\ pc = "projected"
    /\ mapping = BirthToDob
    /\ OnlyBirthChild(elem)
    /\ Len(elem.kids) = 2
    /\ DictGet(record, "dob", None) = Str(<<"1", "9", "9", "0">>)
    /\ year_str = <<"1", "9", "9", "0">>

\* the names main looks up, in order: the five literal ones, then the mapped name
\* of birth
LookupOrder == Candidates \o <<DictGet(mapping, "birth", "birth")>>

PresentCandidates == {i \in 1..Len(LookupOrder) : DictHas(record, LookupOrder[i])}

NonEmptyCandidates ==
    {i \in PresentCandidates : Truthy(DictGet(record, LookupOrder[i], None))}

\* C10 (amended): the date string handed to the resolver is the string form of
\* the value of the first field, in the order birth, fecha, fechaNacimiento,
\* birthdate, birth_date and then the mapped name of birth, that is present in
\* the record, whatever its value; "unknown" is used when none of them is present
\* or when that first present field is empty.
C10_FirstPresentCandidate ==
    pc = "projected" =>
        DateArg(birth_val) =
            IF PresentCandidates = {} THEN Unknown
            ELSE LET v == DictGet(record, LookupOrder[Min(PresentCandidates)], None)
                 IN  IF v \in {Str(<<>>), Dict(<<>>)} THEN Unknown ELSE PyStr(v)

\* C10 as stated: the first candidate that is present with a non-empty value
C10_FirstNonEmptyCandidate ==
    pc = "projected" =>
        DateArg(birth_val) =
            IF NonEmptyCandidates = {} THEN Unknown
            ELSE PyStr(DictGet(record, LookupOrder[Min(NonEmptyCandidates)], None))

\* two candidates present and non-empty, the date taken from the first in order
C10_Witness ==
    /\ pc = "projected"
    /\ mapping = BirthToDob
    /\ DictGet(record, "fecha", None) = Str(<<"1", "2", "3", "4">>)
    /\ DictGet(record, "dob", None) = Str(<<"1", "9", "9", "0">>)
    /\ DateArg(birth_val) = <<"1", "2", "3", "4">>
    /\ year_str = <<"1", "2", "3", "4">>

-----------------------------------------------------------------------------
(* Files and writers.  A file's content is the sequence of the pieces      *)
(* written to it: [kind, obj], kind naming the text and obj the dumped     *)
(* record of a piece that json.dump or yaml.safe_dump produced.            *)

Piece(kind) == [kind |-> kind, obj |-> <<>>]

Dumped(kind, obj) == [kind |-> kind, obj |-> obj]

\* outdir / f'people_{year_str}.json', outdir / f'people_{year_str}.yaml'
JsonPath(y) == <<"people_", y, ".json">>

YamlPath(y) == <<"people_", y, ".yaml">>

\* open(p, 'w'): the file is created, or truncated
OpenW(dk, p) == [q \in DOMAIN dk \cup {p} |-> IF q = p THEN <<>> ELSE dk[q]]

\* f.write(piece)
FileWrite(dk, p, piece) == [dk EXCEPT ![p] = Append(@, piece)]

\* JsonArrayWriter.__init__: the writer and the disk after it
JsonArrayWriter_init(dk, p) ==
    [w |-> [f |-> p, first |-> TRUE, closed |-> FALSE],
     disk |-> FileWrite(OpenW(dk, p), p, Piece("["))]

\* a write that puts the separator before every element, the first included
JsonArrayWriter_write_sep_always(dk, w, obj) ==
    [w |-> [w EXCEPT !.first = FALSE],
     disk |-> FileWrite(FileWrite(dk, w.f, Piece(",")), w.f, Dumped("value", obj))]

\* JsonArrayWriter.write
JsonArrayWriter_write(dk, w, obj) ==
    [w |-> [w EXCEPT !.first = FALSE],
     disk |-> FileWrite(IF ~w.first THEN FileWrite(dk, w.f, Piece(",")) ELSE dk,
                        w.f, Dumped("value", obj))]

\* JsonArrayWriter.close
JsonArrayWriter_close(dk, w) ==
    [w |-> [w EXCEPT !.closed = TRUE], disk |-> FileWrite(dk, w.f, Piece("]"))]

\* yaml.safe_dump(obj, f): a block mapping, one line per item, or the flow
\* mapping {} of an empty dict; no document start or end marker
SafeDump(obj) == IF obj = <<>> THEN Dumped("flow", obj) ELSE Dumped("block", obj)

\* yaml_write
yaml_write(dk, p, obj) == FileWrite(FileWrite(dk, p, SafeDump(obj)), p, Piece("blank"))

\* main, lines 144-146, with a writer created for every record
RouteJsonReopening(jw, dk, y, rec) ==
    LET made == JsonArrayWriter_init(dk, JsonPath(y))
        wrote == JsonArrayWriter_write(made.disk, made.w, rec)
    IN  [json_writers |-> [k \in DOMAIN jw \cup {y} |-> IF k = y THEN wrote.w ELSE jw[k]],
         disk |-> wrote.disk]

\* main, lines 144-146: the writers and the disk after routing rec to year y
RouteJson(jw, dk, y, rec) ==
    LET made == IF y \notin DOMAIN jw
                THEN JsonArrayWriter_init(dk, JsonPath(y))
                ELSE [w |-> jw[y], disk |-> dk]
        wrote == JsonArrayWriter_write(made.disk, made.w, rec)
    IN  [json_writers |-> [k \in DOMAIN jw \cup {y} |-> IF k = y THEN wrote.w ELSE jw[k]],
         disk |-> wrote.disk]

\* main, lines 149-151
RouteYaml(yf, dk, y, rec) ==
    LET new == y \notin DOMAIN yf
        f == IF new THEN [f |-> YamlPath(y), closed |-> FALSE] ELSE yf[y]
        dk1 == IF new THEN OpenW(dk, YamlPath(y)) ELSE dk
    IN  [yaml_files |-> [k \in DOMAIN yf \cup {y} |-> IF k = y THEN f ELSE yf[k]],
         disk |-> yaml_write(dk1, f.f, rec)]

-----------------------------------------------------------------------------
(* The readers of the produced files *)

Failed == [ok |-> FALSE, items |-> <<>>]

Loaded(items) == [ok |-> TRUE, items |-> items]

\* json.load of a file: '[', values separated by ',', ']'
JsonLoad(content) ==
    LET n == Len(content)
        body == SubSeq(content, 2, n - 1)
    IN  IF n < 2 \/ content[1].kind # "[" \/ content[n].kind # "]" THEN Failed
        ELSE IF body = <<>> THEN Loaded(<<>>)
        ELSE IF /\ Len(body) % 2 = 1
                /\ \A i \in 1..Len(body) :
                      body[i].kind = (IF i % 2 = 1 THEN "value" ELSE ",")
        THEN Loaded([i \in 1..((Len(body) + 1) \div 2) |-> body[2 * i - 1].obj])
        ELSE Failed

RECURSIVE PutAll(_, _)
PutAll(d, items) ==
    IF items = <<>> THEN d ELSE PutAll(DictSet(d, Head(items).k, Head(items).v), Tail(items))

\* the lines of content that are not blank
RECURSIVE NonBlank(_)
NonBlank(content) ==
    IF content = <<>> THEN <<>>
    ELSE IF Head(content).kind = "blank" THEN NonBlank(Tail(content))
    ELSE <<Head(content)>> \o NonBlank(Tail(content))

\* the block mappings of successive pieces, read as one mapping
RECURSIVE MergeBlocks(_, _)
MergeBlocks(d, pieces) ==
    IF pieces = <<>> THEN d ELSE MergeBlocks(PutAll(d, Head(pieces).obj), Tail(pieces))

\* yaml.safe_load_all of a file: blank lines separate nothing, so without
\* '---' markers the whole stream is one document: successive block mappings
\* at the same indentation are one mapping, and a flow mapping {} followed or
\* preceded by anything else is a syntax error
YamlLoadAll(content) ==
    LET pieces == NonBlank(content)
    IN  IF pieces = <<>> THEN Loaded(<<>>)
        ELSE IF \A i \in 1..Len(pieces) : pieces[i].kind = "block"
        THEN Loaded(<<MergeBlocks(<<>>, pieces)>>)
        ELSE IF Len(pieces) = 1 THEN Loaded(<<pieces[1].obj>>)
        ELSE Failed

-----------------------------------------------------------------------------
(* main: one action per end event of iterparse, one per exception that     *)
(* leaves the loop, and one for the code after the loop.                   *)

MaxRecords == 4

MaxOther == 1

RecordTag == "person"

Person(kids) == Element(RecordTag, <<>>, None, kids)

PipeElements ==
    { Person(<<Leaf("birth", Str(<<"1", "9", "9", "0">>))>>),
      Person(<<Leaf("birth", Str(<<" ", "1", "2", "3", "4", " ">>))>>),
      Person(<<Leaf("birth", None)>>),
      Person(<<Leaf("fecha", Str(<<"1", "9", "9", "0">>)), Leaf("birth", None)>>),
      Person(<<Element("name", <<>>, None, <<G1>>)>>) }

RECURSIVE NumDesc(_)
NumDesc(el) ==
    IF el.kids = <<>> THEN 0 ELSE 1 + NumDesc(Head(el.kids)) + NumDesc([el EXCEPT !.kids = Tail(@)])

MaxDesc == Max({NumDesc(e) : e \in PipeElements})

Init ==
    /\ pc = "streaming"
    /\ mapping \in {<<>>, BirthToDob}
    /\ json_writers = <<>>
    /\ yaml_files = <<>>
    /\ disk = <<>>
    /\ routed = <<>>
    /\ tree = 0
    /\ pending = 0
    /\ nrec = 0
    /\ exc = "none"
    /\ elem = None
    /\ record = <<>>
    /\ birth_val = None
    /\ year_str = NotYet

\* an end event of an element whose tag is not the record tag: continue.  The
\* element stays in the tree that iterparse builds; inside tells whether it is
\* a descendant of a record element whose end is still to come.
SkipElement(inside) ==
    /\ pc = "streaming"
    /\ IF inside
       THEN nrec < MaxRecords /\ pending < MaxDesc /\ pending' = pending + 1
       ELSE pending = 0 /\ tree < nrec + MaxOther /\ pending' = pending
    /\ tree' = tree + 1
    /\ UNCHANGED <<pc, mapping, json_writers, yaml_files, disk, routed, nrec, exc,
                   elem, record, birth_val, year_str>>

\* lines 128-141 for the record element e
Projected(e) ==
    LET rec == person_elem_to_dict(e, mapping)
        bv == BirthVal(rec, mapping)
    IN  [record |-> rec, birth_val |-> bv, year_str |-> YearStr(bv)]

RecordEvent(e) ==
    /\ pc = "streaming"
    /\ nrec < MaxRecords
    /\ e.tag = RecordTag
    /\ NumDesc(e) = pending
    /\ elem' = e
    /\ nrec' = nrec + 1
    /\ record' = Projected(e).record
    /\ birth_val' = Projected(e).birth_val
    /\ year_str' = Projected(e).year_str
    /\ routed' = [k \in DOMAIN routed \cup {year_str'} |->
                    IF k = year_str'
                    THEN (IF k \in DOMAIN routed THEN routed[k] ELSE <<>>) \o <<record'>>
                    ELSE routed[k]]
    /\ UNCHANGED mapping

\* the end event of a record element, lines 124-163: projected, routed to both
\* writers of its year, cleared.  elem.clear() drops the element's subtree; the
\* element itself stays a child of the root, as getprevious is no method of
\* xml.etree.ElementTree.Element (AttributeError, passed over).
ProcessRecord(e) ==
    /\ RecordEvent(e)
    /\ LET j == RouteJson(json_writers, disk, year_str', record')
           y == RouteYaml(yaml_files, j.disk, year_str', record')
       IN  /\ json_writers' = j.json_writers
           /\ yaml_files' = y.yaml_files
           /\ disk' = y.disk
    /\ tree' = tree - pending + 1
    /\ pending' = 0
    /\ UNCHANGED <<pc, exc>>

\* open() in JsonArrayWriter.__init__ raises OSError: nothing around line 145
\* catches it, and it leaves main
JsonOpenFails(e) ==
    /\ RecordEvent(e)
    /\ year_str' \notin DOMAIN json_writers
    /\ pc' = "aborted"
    /\ exc' = "OSError: json open"
    /\ tree' = tree + 1
    /\ UNCHANGED <<json_writers, yaml_files, disk, pending>>

\* open() at line 150 raises OSError after the record went to the JSON writer
YamlOpenFails(e) ==
    /\ RecordEvent(e)
    /\ year_str' \notin DOMAIN yaml_files
    /\ LET j == RouteJson(json_writers, disk, year_str', record')
       IN  /\ json_writers' = j.json_writers
           /\ disk' = j.disk
    /\ pc' = "aborted"
    /\ exc' = "OSError: yaml open"
    /\ tree' = tree + 1
    /\ UNCHANGED <<yaml_files, pending>>

\* the source is not well-formed from here on: the iterator raises ParseError
\* at line 123, which leaves main
SourceParseError ==
    /\ pc = "streaming"
    /\ pc' = "aborted"
    /\ exc' = "ParseError"
    /\ UNCHANGED <<mapping, json_writers, yaml_files, disk, routed, tree, pending,
                   nrec, elem, record, birth_val, year_str>>

\* the source is exhausted: lines 166-172 close every writer
CloseAll ==
    /\ pc = "streaming"
    /\ pending = 0
    /\ json_writers' = [k \in DOMAIN json_writers |->
                          JsonArrayWriter_close(disk, json_writers[k]).w]
    /\ disk' = [p \in DOMAIN disk |->
                  IF \E k \in DOMAIN json_writers : json_writers[k].f = p
                  THEN JsonArrayWriter_close(disk, json_writers[
                           CHOOSE k \in DOMAIN json_writers : json_writers[k].f = p]).disk[p]
                  ELSE disk[p]]
    /\ yaml_files' = [k \in DOMAIN yaml_files |-> [yaml_files[k] EXCEPT !.closed = TRUE]]
    /\ pc' = "done"
    /\ UNCHANGED <<mapping, routed, tree, pending, nrec, exc, elem, record,
                   birth_val, year_str>>

Next ==
    \/ \E inside \in BOOLEAN : SkipElement(inside)
    \/ \E e \in PipeElements : ProcessRecord(e)
    \/ \E e \in PipeElements : JsonOpenFails(e)
    \/ \E e \in PipeElements : YamlOpenFails(e)
    \/ SourceParseError
    \/ CloseAll

Spec == Init /\ [][Next]_vars

-----------------------------------------------------------------------------
(* Properties of a run *)

Y1990 == <<"1", "9", "9", "0">>

\* C1: after a complete run, for every partition key k the file people_<k>.yaml
\* parses back into exactly as many documents as records were routed to k.
C1_YamlOneDocumentPerRecord ==
    pc = "done" =>
        \A k \in DOMAIN routed :
            /\ YamlLoadAll(disk[YamlPath(k)]).ok
            /\ Len(YamlLoadAll(disk[YamlPath(k)]).items) = Len(routed[k])

\* C2: after a complete run, for every partition key k the file people_<k>.json
\* is one well-formed JSON array holding exactly the records routed to k, in
\* arrival order; and while the run goes on, what is written so far is such an
\* array short of its closing delimiter, so that a write only appends.
C2_JsonArrayPerPartition ==
    /\ pc \in {"streaming", "done"} => DOMAIN json_writers = DOMAIN routed
    /\ pc = "done" =>
          \A k \in DOMAIN routed : JsonLoad(disk[JsonPath(k)]) = Loaded(routed[k])
    /\ pc = "streaming" =>
          \A k \in DOMAIN routed :
              JsonLoad(Append(disk[JsonPath(k)], Piece("]"))) = Loaded(routed[k])

\* a complete run with two partitions, one of them holding three records
C2_Witness ==
    /\ pc = "done"
    /\ Cardinality(DOMAIN routed) = 2
    /\ Y1990 \in DOMAIN routed
    /\ Unknown \in DOMAIN routed
    /\ Len(routed[Unknown]) = 3
    /\ Len(disk[JsonPath(Unknown)]) = 7
    /\ routed[Unknown][1] # routed[Unknown][2]

\* C3: a failure while routing one record element is caught, skips only that
\* element and does not abort the run.
C3_RecordFailureDoesNotAbort ==
    exc \in {"OSError: json open", "OSError: yaml open"} => pc = "streaming"

\* C4: on every exit route of a run every writer that was opened is closed: each
\* JSON writer has its closing array delimiter written and its file closed, and
\* each YAML file is closed.  Stated for the two routes that end a run whatever
\* becomes of a failed record: the source exhausted, and a fatal parse error.
C4_WritersClosedOnEveryExit ==
    (pc = "done" \/ (pc = "aborted" /\ exc = "ParseError")) =>
        /\ \A k \in DOMAIN json_writers :
              /\ json_writers[k].closed
              /\ disk[json_writers[k].f][Len(disk[json_writers[k].f])].kind = "]"
        /\ \A k \in DOMAIN yaml_files : yaml_files[k].closed

IsPrefix(a, b) == Len(a) <= Len(b) /\ SubSeq(b, 1, Len(a)) = a

\* C5: for every partition key there is at most one JSON writer and one YAML
\* file handle, created on the first record routed to the key and bound to the
\* destination named from it; once created, a key's writer is not closed,
\* replaced or reopened (its file never truncated) before the source is
\* exhausted, and every later record of the key is appended through it.
C5_WriterStep ==
    /\ \A k \in DOMAIN json_writers' :
          /\ json_writers'[k].f = JsonPath(k)
          /\ k \in DOMAIN routed' /\ routed'[k] # <<>>
    /\ \A k \in DOMAIN yaml_files' :
          /\ yaml_files'[k].f = YamlPath(k)
          /\ k \in DOMAIN routed' /\ routed'[k] # <<>>
    /\ \A k \in DOMAIN json_writers :
          /\ k \in DOMAIN json_writers'
          /\ json_writers'[k].f = json_writers[k].f
          /\ pc' # "done" => ~json_writers'[k].closed
          /\ IsPrefix(disk[JsonPath(k)], disk'[JsonPath(k)])
          /\ (k \in DOMAIN routed /\ Len(routed'[k]) > Len(routed[k]) /\ pc' = "streaming")
                => disk'[JsonPath(k)]
                     = disk[JsonPath(k)] \o <<Piece(","), Dumped("value", record')>>
    /\ \A k \in DOMAIN yaml_files :
          /\ k \in DOMAIN yaml_files'
          /\ yaml_files'[k] = yaml_files[k] \/ pc' = "done"
          /\ IsPrefix(disk[YamlPath(k)], disk'[YamlPath(k)])

C5_OneWriterPerKey == [][C5_WriterStep]_vars

\* a key's writers are still open after its third record
C5_Witness ==
    /\ pc = "streaming"
    /\ Y1990 \in DOMAIN json_writers
    /\ Len(routed[Y1990]) = 3
    /\ ~json_writers[Y1990].closed
    /\ ~yaml_files[Y1990].closed
    /\ Len(disk[JsonPath(Y1990)]) = 6

\* C9: the number of source elements the reader still holds is bounded by a
\* constant that does not depend on the number of record elements read: the
\* subtree of the record being read, and here also the elements outside any
\* record.
C9_HeldElementsBounded ==
    pc \in {"streaming", "done"} => tree <= MaxDesc + 1 + MaxOther

====
